---- MODULE Spec2Model ----
(***************************************************************************)
(* A model of sites/royalroad.py (leech): the RoyalRoad site plugin.       *)
(*                                                                         *)
(*   SpecMatch    RoyalRoad.matches / RoyalRoadL.matches on bounded URLs   *)
(*   SpecChapter  RoyalRoad._chapter (with _clean and _clean_spoilers) on  *)
(*                a bounded family of parsed chapter pages                 *)
(*   Spec         RoyalRoad.extract as a state machine: the calls of one   *)
(*                site instance, page fetches, the chapter loop, the       *)
(*                global http.client._MAXHEADERS and self.footnotes        *)
(*                                                                         *)
(* A character is its Unicode code point and a Python str is a sequence of *)
(* code points, so that the character classes of re and of str.strip() are *)
(* the ones Python uses on every character a str can hold.                 *)
(***************************************************************************)
EXTENDS Integers, Sequences, FiniteSets, TLC

VARIABLES
    \* ---- RoyalRoad.matches(cls, url)
    match_domain,       \* cls.domain, a sequence of characters
    match_url,          \* the url argument, a sequence of characters
    match_result,       \* [done, value]: value is <<>> for None, <<u>> for a returned URL
    \* ---- RoyalRoad._chapter(self, url, chapterid)
    page,               \* the parsed chapter page that self._soup(url) returned
    chapter_result,     \* [done, err, content, updated]: what _chapter returned or raised
    \* ---- RoyalRoad.extract(self, url), one site instance
    options,            \* self.options: offset, limit, skip_spoilers
    maxheaders,         \* the global http.client._MAXHEADERS
    footnotes,          \* self.footnotes
    pc,                 \* where extract() is: "idle" when no extraction is in progress
    extract_url,        \* extract's argument url
    soup,               \* extract's local: the parsed landing page
    original_maxheaders,\* extract's local of that name
    index,              \* extract's loop variable: the next row of the chapter table
    story,              \* extract's local: the Section being filled
    returned,           \* outcome of the last extract() call: [status, story]
    produced,           \* footnotes that cleaning has produced during the current call
    fetched,            \* the page fetches of the current call: [what, ceiling in force]
    calls               \* number of extract() calls made so far

vars == <<match_domain, match_url, match_result, page, chapter_result, options,
          maxheaders, footnotes, pc, extract_url, soup, original_maxheaders, index, story,
          returned, produced, fetched, calls>>

matchVars == <<match_domain, match_url, match_result>>
chapterVars == <<page, chapter_result>>
extractVars == <<maxheaders, footnotes, pc, extract_url, soup, original_maxheaders, index,
                 story, returned, produced, fetched, calls>>

\* An optional value (Python's None or a value) is a sequence of length 0 or 1.
None == <<>>
Some(v) == <<v>>

(***************************************************************************)
(* Characters and strings                                                  *)
(***************************************************************************)
\* the ASCII characters from " " (32) to "_" (95) and from "a" (97) to "~"
\* (126), in the order of their code points
AsciiLow == " !\"#$%&'()*+,-./0123456789:;<=>?@ABCDEFGHIJKLMNOPQRSTUVWXYZ[\\]^_"
AsciiHigh == "abcdefghijklmnopqrstuvwxyz{|}~"

\* ord(c) of each of these characters
Ord ==
    [c \in {SubSeq(AsciiLow, i, i) : i \in 1..Len(AsciiLow)} |->
        31 + CHOOSE i \in 1..Len(AsciiLow) : SubSeq(AsciiLow, i, i) = c]
    @@ [c \in {SubSeq(AsciiHigh, i, i) : i \in 1..Len(AsciiHigh)} |->
        96 + CHOOSE i \in 1..Len(AsciiHigh) : SubSeq(AsciiHigh, i, i) = c]

\* the str that a literal of these characters denotes
Chars(literal) == [i \in 1..Len(literal) |-> Ord[SubSeq(literal, i, i)]]

\* s[from:] of a sequence
From(s, from) == SubSeq(s, from, Len(s))

\* s.startswith(p)
StartsWith(s, p) == Len(p) <= Len(s) /\ SubSeq(s, 1, Len(p)) = p

\* The digit 0 of every script that has decimal digits (Unicode category Nd,
\* as CPython 3.11 classifies characters: Unicode 14.0); the digits 1 to 9 of
\* the script follow it.
DigitZeros ==
    {
      48, 1632, 1776, 1984, 2406, 2534, 2662, 2790, 2918, 3046, 3174, 3302, 3430, 3558,
      3664, 3792, 3872, 4160, 4240, 6112, 6160, 6470, 6608, 6784, 6800, 6992, 7088,
      7232, 7248, 42528, 43216, 43264, 43472, 43504, 43600, 44016, 65296, 66720, 68912,
      69734, 69872, 69942, 70096, 70384, 70736, 70864, 71248, 71360, 71472, 71904,
      72016, 72784, 73040, 73120, 92768, 92864, 93008, 120782, 120792, 120802, 120812,
      120822, 123200, 123632, 125264, 130032 }

\* \d of a str pattern (no re.ASCII): every Unicode decimal digit
Digits == UNION {z..(z + 9) : z \in DigitZeros}

RECURSIVE DigitRun(_)
\* length of the longest run of \d characters at the start of s (a greedy \d*)
DigitRun(s) ==
    IF s # <<>> /\ Head(s) \in Digits THEN 1 + DigitRun(Tail(s)) ELSE 0

(***************************************************************************)
(* RoyalRoad.matches                                                       *)
(*   re.match(r'^(https?://(?:www\.)?%s\.com/fiction/\d+)/?.*' % domain)   *)
(***************************************************************************)
chHttp == Chars("http")
chSep == Chars("://")
chWww == Chars("www.")
chComFiction == Chars(".com/fiction/")
chRoyalroad == Chars("royalroad")
chRoyalroadldl == chRoyalroad \o Chars("ldl")

\* the class attribute `domain` of RoyalRoad and of RoyalRoadL
Domains == {chRoyalroad, chRoyalroadldl}

\* Number of characters of url that the group (https?://(?:www\.)?DOMAIN\.com/fiction/\d+)
\* takes, 0 when the pattern does not match at the start of url. The regex engine
\* scans left to right; each optional part is taken when present (no other choice
\* can succeed afterwards), and /?.* accepts whatever follows the digits.
GroupEnd(domain, url) ==
    IF ~StartsWith(url, chHttp) THEN 0
    ELSE LET a == Len(chHttp)
             b == IF StartsWith(From(url, a + 1), Chars("s")) THEN a + 1 ELSE a
         IN  IF ~StartsWith(From(url, b + 1), chSep) THEN 0
             ELSE LET c == b + Len(chSep)
                      d == IF StartsWith(From(url, c + 1), chWww)
                           THEN c + Len(chWww) ELSE c
                  IN  IF ~StartsWith(From(url, d + 1), domain \o chComFiction) THEN 0
                      ELSE LET e == d + Len(domain) + Len(chComFiction)
                               n == DigitRun(From(url, e + 1))
                           IN  IF n = 0 THEN 0 ELSE e + n

\* matches with the '/' after group 1 forgotten
MatchesNoSlash(domain, url) ==
    LET g == GroupEnd(domain, url)
    IN  IF g > 0 THEN Some(SubSeq(url, 1, g)) ELSE None

\* matches(cls, url): match.group(1) + '/' on a match, None (no return) otherwise
Matches(domain, url) ==
    LET g == GroupEnd(domain, url)
    IN  IF g > 0 THEN Some(SubSeq(url, 1, g) \o Chars("/")) ELSE None

(***************************************************************************)
(* The parsed HTML tree (BeautifulSoup).  A node is                        *)
(*   [id, tag, kind, cls, style, unixtime, kids, text]                     *)
(* id    the node's identity (Python object identity), unique in a tree    *)
(* tag   the tag name; "#text" for a string                                *)
(* kind  the node's class: "Tag", or the string class the parser chose     *)
(* cls   the class attribute: None, or Some(sequence of class names)       *)
(* style the style attribute: None, or Some(string)                        *)
(* unixtime  the unixtime attribute: None, or Some(string)                 *)
(* kids  the children in document order                                    *)
(* text  of a "#text" node: its characters                                 *)
(***************************************************************************)
Elem(tag, cls, style, kids) ==
    [id |-> 0, tag |-> tag, kind |-> "Tag", cls |-> cls, style |-> style,
     unixtime |-> None, kids |-> kids, text |-> <<>>]

\* a string as the code creates it (tag.string = ...): a plain NavigableString
Text(chars) ==
    [id |-> 0, tag |-> "#text", kind |-> "NavigableString", cls |-> None, style |-> None,
     unixtime |-> None, kids |-> <<>>, text |-> chars]

IsTag(n) == n.tag # "#text"

\* The string classes the HTML tree builders (bs4 4.9 and later; rt and rp
\* since 4.10) give to the strings inside these tags
StringContainers ==
    [style |-> "Stylesheet", script |-> "Script", template |-> "TemplateString",
     rt |-> "RubyTextString", rp |-> "RubyParenthesisString"]

\* the string class of the strings right inside a tag, `outer` being that of
\* the strings around the tag
ContainerOf(tag, outer) ==
    IF tag \in DOMAIN StringContainers THEN StringContainers[tag] ELSE outer

RECURSIVE Parsed(_, _)
\* a subtree as the parser builds it: every string gets the class of the
\* innermost of these tags it is inside of, NavigableString when in none
Parsed(n, outer) ==
    IF ~IsTag(n) THEN [n EXCEPT !.kind = outer]
    ELSE [n EXCEPT !.kids = [i \in DOMAIN n.kids |->
                               Parsed(n.kids[i], ContainerOf(n.tag, outer))]]

RECURSIVE Size(_)
RECURSIVE SizeAll(_)
\* number of nodes of a subtree, and of a sequence of subtrees
Size(n) == 1 + SizeAll(n.kids)
SizeAll(ks) == IF ks = <<>> THEN 0 ELSE Size(Head(ks)) + SizeAll(Tail(ks))

RECURSIVE Renumber(_, _)
RECURSIVE RenumberAll(_, _)
\* the subtree with its nodes given the ids first, first+1, ... in document order
Renumber(n, first) == [n EXCEPT !.id = first, !.kids = RenumberAll(n.kids, first + 1)]
RenumberAll(ks, first) ==
    IF ks = <<>> THEN <<>>
    ELSE <<Renumber(Head(ks), first)>> \o RenumberAll(Tail(ks), first + Size(Head(ks)))

RECURSIVE Descendants(_)
RECURSIVE DescendantsAll(_)
\* Tag.descendants: every node below n, in document order
Descendants(n) == DescendantsAll(n.kids)
DescendantsAll(ks) ==
    IF ks = <<>> THEN <<>>
    ELSE <<Head(ks)>> \o Descendants(Head(ks)) \o DescendantsAll(Tail(ks))

Range(s) == {s[i] : i \in DOMAIN s}

Ids(ns) == [i \in DOMAIN ns |-> ns[i].id]

\* class_=c matches a tag one of whose class names is c
HasClass(n, c) == n.cls # None /\ c \in Range(n.cls[1])

\* tag.find_all(name, class_=c): the matching tags below n, in document order
FindAllTag(n, name) ==
    LET Test(x) == x.tag = name IN SelectSeq(Descendants(n), Test)
FindAllClass(n, c) ==
    LET Test(x) == IsTag(x) /\ HasClass(x, c) IN SelectSeq(Descendants(n), Test)
FindAllTagClass(n, name, c) ==
    LET Test(x) == x.tag = name /\ HasClass(x, c) IN SelectSeq(Descendants(n), Test)

\* tag.find(...): the first of find_all(...), or None
First(ns) == IF ns = <<>> THEN None ELSE Some(Head(ns))

\* the node of identity id in the tree below root, or None when it is not there
NodeOf(root, id) ==
    LET Test(x) == x.id = id IN First(SelectSeq(<<root>> \o Descendants(root), Test))

\* tag.parent: the node of the tree one of whose children has identity id
ParentOf(root, id) ==
    LET Test(x) == \E i \in DOMAIN x.kids : x.kids[i].id = id
    IN  First(SelectSeq(<<root>> \o Descendants(root), Test))

RECURSIVE Remove(_, _)
RECURSIVE RemoveAll(_, _)
\* the tree without the subtrees whose roots have an identity in ids
\* (PageElement.extract / Tag.decompose of each of them)
Remove(n, ids) == [n EXCEPT !.kids = RemoveAll(n.kids, ids)]
RemoveAll(ks, ids) ==
    IF ks = <<>> THEN <<>>
    ELSE IF Head(ks).id \in ids THEN RemoveAll(Tail(ks), ids)
    ELSE <<Remove(Head(ks), ids)>> \o RemoveAll(Tail(ks), ids)

RECURSIVE InsertBefore(_, _, _)
RECURSIVE InsertBeforeAll(_, _, _)
\* the tree with the nodes `new` inserted, in order, right before the node of
\* identity id, as its siblings (PageElement.insert_before)
InsertBefore(n, id, new) == [n EXCEPT !.kids = InsertBeforeAll(n.kids, id, new)]
InsertBeforeAll(ks, id, new) ==
    IF ks = <<>> THEN <<>>
    ELSE IF Head(ks).id = id THEN new \o ks
    ELSE <<InsertBefore(Head(ks), id, new)>> \o InsertBeforeAll(Tail(ks), id, new)

MaxOf(S) == CHOOSE m \in S : \A x \in S : x <= m

\* an identity no node of the tree has (a newly constructed object)
FreshId(root) == 1 + MaxOf({root.id} \cup Range(Ids(Descendants(root))))

(***************************************************************************)
(* Serialization and text extraction                                       *)
(***************************************************************************)
RECURSIVE JoinWith(_, _)
\* sep.join(strings)
JoinWith(ss, sep) ==
    IF ss = <<>> THEN <<>>
    ELSE IF Len(ss) = 1 THEN Head(ss)
    ELSE Head(ss) \o sep \o JoinWith(Tail(ss), sep)

\* the tags that the HTML tree builders write <tag/> when they have no content
VoidTags ==
    {"area", "base", "br", "col", "embed", "hr", "img", "input", "keygen", "link",
     "menuitem", "meta", "param", "source", "track", "wbr",
     "basefont", "bgsound", "command", "frame", "image", "isindex", "nextid", "spacer"}

\* the tags whose strings are written as they are
CdataTags == {"script", "style"}

RECURSIVE Escape(_)
\* the output formatter on a string: & < > become &amp; &lt; &gt;
Escape(s) ==
    IF s = <<>> THEN <<>>
    ELSE (IF Head(s) = Ord["&"] THEN Chars("&amp;")
          ELSE IF Head(s) = Ord["<"] THEN Chars("&lt;")
          ELSE IF Head(s) = Ord[">"] THEN Chars("&gt;")
          ELSE <<Head(s)>>)
         \o Escape(Tail(s))

\* value.replace('"', '&quot;')
QuotEscape(s) ==
    LET Piece(c) == IF c = Ord["\""] THEN Chars("&quot;") ELSE <<c>>
        Pieces   == [i \in DOMAIN s |-> Piece(s[i])]
    IN  JoinWith(Pieces, <<>>)

\* an attribute value as it is written: escaped, then in double quotes, or in
\* single quotes when it holds a double quote and no single quote
Quoted(value) ==
    LET v == Escape(value)
        Has(c) == \E i \in DOMAIN v : v[i] = c
    IN  IF ~Has(Ord["\""]) THEN Chars("\"") \o v \o Chars("\"")
        ELSE IF Has(Ord["'"]) THEN Chars("\"") \o QuotEscape(v) \o Chars("\"")
        ELSE Chars("'") \o v \o Chars("'")

AttrString(n) ==
    (IF n.cls = None THEN <<>>
     ELSE Chars(" class=") \o Quoted(JoinWith(n.cls[1], Chars(" "))))
    \o (IF n.style = None THEN <<>> ELSE Chars(" style=") \o Quoted(n.style[1]))
    \o (IF n.unixtime = None THEN <<>> ELSE Chars(" unixtime=") \o Quoted(n.unixtime[1]))

RECURSIVE StrIn(_, _)
RECURSIVE StrAll(_, _)
\* the markup of a node whose parent is the tag `parent`
StrIn(n, parent) ==
    IF ~IsTag(n) THEN (IF parent \in CdataTags THEN n.text ELSE Escape(n.text))
    ELSE IF n.tag \in VoidTags /\ n.kids = <<>>
    THEN Chars("<") \o Chars(n.tag) \o AttrString(n) \o Chars("/>")
    ELSE Chars("<") \o Chars(n.tag) \o AttrString(n) \o Chars(">")
         \o StrAll(n.kids, n.tag) \o Chars("</") \o Chars(n.tag) \o Chars(">")
StrAll(ks, parent) ==
    IF ks = <<>> THEN <<>> ELSE StrIn(Head(ks), parent) \o StrAll(Tail(ks), parent)

\* str(tag): the markup of a subtree
Str(n) == StrIn(n, "")

\* the characters that str.strip() removes and that \s of a str pattern
\* matches: those str.isspace() is true of
Whitespace ==
    (9..13) \cup (28..32) \cup {133, 160, 5760} \cup (8192..8202)
    \cup {8232, 8233, 8239, 8287, 12288}

RECURSIVE LStrip(_)
LStrip(s) == IF s # <<>> /\ Head(s) \in Whitespace THEN LStrip(Tail(s)) ELSE s

RECURSIVE RStrip(_)
RStrip(s) ==
    IF s # <<>> /\ s[Len(s)] \in Whitespace THEN RStrip(SubSeq(s, 1, Len(s) - 1)) ELSE s

\* str.strip()
Strip(s) == RStrip(LStrip(s))

RECURSIVE ConcatStripped(_, _)
ConcatStripped(ns, kind) ==
    IF ns = <<>> THEN <<>>
    ELSE (IF Head(ns).kind = kind THEN Strip(Head(ns).text) ELSE <<>>)
         \o ConcatStripped(Tail(ns), kind)

\* tag.get_text(strip=True): the strings below the tag that are of the tag's
\* own string class (for a div the plain NavigableStrings: not the strings
\* of style, script, template, rt or rp elements), each stripped, the empty
\* ones dropped, joined with nothing between them
GetTextStrip(n) == ConcatStripped(Descendants(n), ContainerOf(n.tag, "NavigableString"))

\* tag.string: the single string child, or that of a single tag child; else None
RECURSIVE StringOf(_)
StringOf(n) ==
    IF Len(n.kids) # 1 THEN None
    ELSE IF IsTag(n.kids[1]) THEN StringOf(n.kids[1])
    ELSE Some(n.kids[1].text)

(***************************************************************************)
(* The class names and the separator the code names                        *)
(***************************************************************************)
clsChapterContent == Chars("chapter-content")
clsAuthorNote == Chars("author-note-portlet")
clsProfileInfo == Chars("profile-info")
clsSpoiler == Chars("spoiler")
clsSmalltext == Chars("smalltext")
clsSpoilerContent == Chars("spoilerContent")
clsSpoilerInner == Chars("spoiler-inner")
chHr == Chars("<hr/>")

(***************************************************************************)
(* RoyalRoad._clean: the generic cleaner, then the hidden-warning removal  *)
(***************************************************************************)
\* Site._clean(contents), the framework's generic cleaner: it works on the
\* element it is given and returns it; of what it strips, the model keeps
\* the removal of script elements.
SiteClean(root, cid) ==
    LET c == NodeOf(root, cid)[1]
    IN  Remove(root, Range(Ids(FindAllTag(c, "script"))))

\* The ranges <<first, last>> of the characters that \w of a str pattern (no
\* re.ASCII) matches: the underscore and every character str.isalnum() is true
\* of (as CPython 3.11 classifies characters: Unicode 14.0)
WordRanges ==
    {
      <<48, 57>>, <<65, 90>>, <<95, 95>>, <<97, 122>>, <<170, 170>>, <<178, 179>>,
      <<181, 181>>, <<185, 186>>, <<188, 190>>, <<192, 214>>, <<216, 246>>,
      <<248, 705>>, <<710, 721>>, <<736, 740>>, <<748, 748>>, <<750, 750>>,
      <<880, 884>>, <<886, 887>>, <<890, 893>>, <<895, 895>>, <<902, 902>>,
      <<904, 906>>, <<908, 908>>, <<910, 929>>, <<931, 1013>>, <<1015, 1153>>,
      <<1162, 1327>>, <<1329, 1366>>, <<1369, 1369>>, <<1376, 1416>>, <<1488, 1514>>,
      <<1519, 1522>>, <<1568, 1610>>, <<1632, 1641>>, <<1646, 1647>>, <<1649, 1747>>,
      <<1749, 1749>>, <<1765, 1766>>, <<1774, 1788>>, <<1791, 1791>>, <<1808, 1808>>,
      <<1810, 1839>>, <<1869, 1957>>, <<1969, 1969>>, <<1984, 2026>>, <<2036, 2037>>,
      <<2042, 2042>>, <<2048, 2069>>, <<2074, 2074>>, <<2084, 2084>>, <<2088, 2088>>,
      <<2112, 2136>>, <<2144, 2154>>, <<2160, 2183>>, <<2185, 2190>>, <<2208, 2249>>,
      <<2308, 2361>>, <<2365, 2365>>, <<2384, 2384>>, <<2392, 2401>>, <<2406, 2415>>,
      <<2417, 2432>>, <<2437, 2444>>, <<2447, 2448>>, <<2451, 2472>>, <<2474, 2480>>,
      <<2482, 2482>>, <<2486, 2489>>, <<2493, 2493>>, <<2510, 2510>>, <<2524, 2525>>,
      <<2527, 2529>>, <<2534, 2545>>, <<2548, 2553>>, <<2556, 2556>>, <<2565, 2570>>,
      <<2575, 2576>>, <<2579, 2600>>, <<2602, 2608>>, <<2610, 2611>>, <<2613, 2614>>,
      <<2616, 2617>>, <<2649, 2652>>, <<2654, 2654>>, <<2662, 2671>>, <<2674, 2676>>,
      <<2693, 2701>>, <<2703, 2705>>, <<2707, 2728>>, <<2730, 2736>>, <<2738, 2739>>,
      <<2741, 2745>>, <<2749, 2749>>, <<2768, 2768>>, <<2784, 2785>>, <<2790, 2799>>,
      <<2809, 2809>>, <<2821, 2828>>, <<2831, 2832>>, <<2835, 2856>>, <<2858, 2864>>,
      <<2866, 2867>>, <<2869, 2873>>, <<2877, 2877>>, <<2908, 2909>>, <<2911, 2913>>,
      <<2918, 2927>>, <<2929, 2935>>, <<2947, 2947>>, <<2949, 2954>>, <<2958, 2960>>,
      <<2962, 2965>>, <<2969, 2970>>, <<2972, 2972>>, <<2974, 2975>>, <<2979, 2980>>,
      <<2984, 2986>>, <<2990, 3001>>, <<3024, 3024>>, <<3046, 3058>>, <<3077, 3084>>,
      <<3086, 3088>>, <<3090, 3112>>, <<3114, 3129>>, <<3133, 3133>>, <<3160, 3162>>,
      <<3165, 3165>>, <<3168, 3169>>, <<3174, 3183>>, <<3192, 3198>>, <<3200, 3200>>,
      <<3205, 3212>>, <<3214, 3216>>, <<3218, 3240>>, <<3242, 3251>>, <<3253, 3257>>,
      <<3261, 3261>>, <<3293, 3294>>, <<3296, 3297>>, <<3302, 3311>>, <<3313, 3314>>,
      <<3332, 3340>>, <<3342, 3344>>, <<3346, 3386>>, <<3389, 3389>>, <<3406, 3406>>,
      <<3412, 3414>>, <<3416, 3425>>, <<3430, 3448>>, <<3450, 3455>>, <<3461, 3478>>,
      <<3482, 3505>>, <<3507, 3515>>, <<3517, 3517>>, <<3520, 3526>>, <<3558, 3567>>,
      <<3585, 3632>>, <<3634, 3635>>, <<3648, 3654>>, <<3664, 3673>>, <<3713, 3714>>,
      <<3716, 3716>>, <<3718, 3722>>, <<3724, 3747>>, <<3749, 3749>>, <<3751, 3760>>,
      <<3762, 3763>>, <<3773, 3773>>, <<3776, 3780>>, <<3782, 3782>>, <<3792, 3801>>,
      <<3804, 3807>>, <<3840, 3840>>, <<3872, 3891>>, <<3904, 3911>>, <<3913, 3948>>,
      <<3976, 3980>>, <<4096, 4138>>, <<4159, 4169>>, <<4176, 4181>>, <<4186, 4189>>,
      <<4193, 4193>>, <<4197, 4198>>, <<4206, 4208>>, <<4213, 4225>>, <<4238, 4238>>,
      <<4240, 4249>>, <<4256, 4293>>, <<4295, 4295>>, <<4301, 4301>>, <<4304, 4346>>,
      <<4348, 4680>>, <<4682, 4685>>, <<4688, 4694>>, <<4696, 4696>>, <<4698, 4701>>,
      <<4704, 4744>>, <<4746, 4749>>, <<4752, 4784>>, <<4786, 4789>>, <<4792, 4798>>,
      <<4800, 4800>>, <<4802, 4805>>, <<4808, 4822>>, <<4824, 4880>>, <<4882, 4885>>,
      <<4888, 4954>>, <<4969, 4988>>, <<4992, 5007>>, <<5024, 5109>>, <<5112, 5117>>,
      <<5121, 5740>>, <<5743, 5759>>, <<5761, 5786>>, <<5792, 5866>>, <<5870, 5880>>,
      <<5888, 5905>>, <<5919, 5937>>, <<5952, 5969>>, <<5984, 5996>>, <<5998, 6000>>,
      <<6016, 6067>>, <<6103, 6103>>, <<6108, 6108>>, <<6112, 6121>>, <<6128, 6137>>,
      <<6160, 6169>>, <<6176, 6264>>, <<6272, 6276>>, <<6279, 6312>>, <<6314, 6314>>,
      <<6320, 6389>>, <<6400, 6430>>, <<6470, 6509>>, <<6512, 6516>>, <<6528, 6571>>,
      <<6576, 6601>>, <<6608, 6618>>, <<6656, 6678>>, <<6688, 6740>>, <<6784, 6793>>,
      <<6800, 6809>>, <<6823, 6823>>, <<6917, 6963>>, <<6981, 6988>>, <<6992, 7001>>,
      <<7043, 7072>>, <<7086, 7141>>, <<7168, 7203>>, <<7232, 7241>>, <<7245, 7293>>,
      <<7296, 7304>>, <<7312, 7354>>, <<7357, 7359>>, <<7401, 7404>>, <<7406, 7411>>,
      <<7413, 7414>>, <<7418, 7418>>, <<7424, 7615>>, <<7680, 7957>>, <<7960, 7965>>,
      <<7968, 8005>>, <<8008, 8013>>, <<8016, 8023>>, <<8025, 8025>>, <<8027, 8027>>,
      <<8029, 8029>>, <<8031, 8061>>, <<8064, 8116>>, <<8118, 8124>>, <<8126, 8126>>,
      <<8130, 8132>>, <<8134, 8140>>, <<8144, 8147>>, <<8150, 8155>>, <<8160, 8172>>,
      <<8178, 8180>>, <<8182, 8188>>, <<8304, 8305>>, <<8308, 8313>>, <<8319, 8329>>,
      <<8336, 8348>>, <<8450, 8450>>, <<8455, 8455>>, <<8458, 8467>>, <<8469, 8469>>,
      <<8473, 8477>>, <<8484, 8484>>, <<8486, 8486>>, <<8488, 8488>>, <<8490, 8493>>,
      <<8495, 8505>>, <<8508, 8511>>, <<8517, 8521>>, <<8526, 8526>>, <<8528, 8585>>,
      <<9312, 9371>>, <<9450, 9471>>, <<10102, 10131>>, <<11264, 11492>>,
      <<11499, 11502>>, <<11506, 11507>>, <<11517, 11517>>, <<11520, 11557>>,
      <<11559, 11559>>, <<11565, 11565>>, <<11568, 11623>>, <<11631, 11631>>,
      <<11648, 11670>>, <<11680, 11686>>, <<11688, 11694>>, <<11696, 11702>>,
      <<11704, 11710>>, <<11712, 11718>>, <<11720, 11726>>, <<11728, 11734>>,
      <<11736, 11742>>, <<11823, 11823>>, <<12293, 12295>>, <<12321, 12329>>,
      <<12337, 12341>>, <<12344, 12348>>, <<12353, 12438>>, <<12445, 12447>>,
      <<12449, 12538>>, <<12540, 12543>>, <<12549, 12591>>, <<12593, 12686>>,
      <<12690, 12693>>, <<12704, 12735>>, <<12784, 12799>>, <<12832, 12841>>,
      <<12872, 12879>>, <<12881, 12895>>, <<12928, 12937>>, <<12977, 12991>>,
      <<13312, 19903>>, <<19968, 42124>>, <<42192, 42237>>, <<42240, 42508>>,
      <<42512, 42539>>, <<42560, 42606>>, <<42623, 42653>>, <<42656, 42735>>,
      <<42775, 42783>>, <<42786, 42888>>, <<42891, 42954>>, <<42960, 42961>>,
      <<42963, 42963>>, <<42965, 42969>>, <<42994, 43009>>, <<43011, 43013>>,
      <<43015, 43018>>, <<43020, 43042>>, <<43056, 43061>>, <<43072, 43123>>,
      <<43138, 43187>>, <<43216, 43225>>, <<43250, 43255>>, <<43259, 43259>>,
      <<43261, 43262>>, <<43264, 43301>>, <<43312, 43334>>, <<43360, 43388>>,
      <<43396, 43442>>, <<43471, 43481>>, <<43488, 43492>>, <<43494, 43518>>,
      <<43520, 43560>>, <<43584, 43586>>, <<43588, 43595>>, <<43600, 43609>>,
      <<43616, 43638>>, <<43642, 43642>>, <<43646, 43695>>, <<43697, 43697>>,
      <<43701, 43702>>, <<43705, 43709>>, <<43712, 43712>>, <<43714, 43714>>,
      <<43739, 43741>>, <<43744, 43754>>, <<43762, 43764>>, <<43777, 43782>>,
      <<43785, 43790>>, <<43793, 43798>>, <<43808, 43814>>, <<43816, 43822>>,
      <<43824, 43866>>, <<43868, 43881>>, <<43888, 44002>>, <<44016, 44025>>,
      <<44032, 55203>>, <<55216, 55238>>, <<55243, 55291>>, <<63744, 64109>>,
      <<64112, 64217>>, <<64256, 64262>>, <<64275, 64279>>, <<64285, 64285>>,
      <<64287, 64296>>, <<64298, 64310>>, <<64312, 64316>>, <<64318, 64318>>,
      <<64320, 64321>>, <<64323, 64324>>, <<64326, 64433>>, <<64467, 64829>>,
      <<64848, 64911>>, <<64914, 64967>>, <<65008, 65019>>, <<65136, 65140>>,
      <<65142, 65276>>, <<65296, 65305>>, <<65313, 65338>>, <<65345, 65370>>,
      <<65382, 65470>>, <<65474, 65479>>, <<65482, 65487>>, <<65490, 65495>>,
      <<65498, 65500>>, <<65536, 65547>>, <<65549, 65574>>, <<65576, 65594>>,
      <<65596, 65597>>, <<65599, 65613>>, <<65616, 65629>>, <<65664, 65786>>,
      <<65799, 65843>>, <<65856, 65912>>, <<65930, 65931>>, <<66176, 66204>>,
      <<66208, 66256>>, <<66273, 66299>>, <<66304, 66339>>, <<66349, 66378>>,
      <<66384, 66421>>, <<66432, 66461>>, <<66464, 66499>>, <<66504, 66511>>,
      <<66513, 66517>>, <<66560, 66717>>, <<66720, 66729>>, <<66736, 66771>>,
      <<66776, 66811>>, <<66816, 66855>>, <<66864, 66915>>, <<66928, 66938>>,
      <<66940, 66954>>, <<66956, 66962>>, <<66964, 66965>>, <<66967, 66977>>,
      <<66979, 66993>>, <<66995, 67001>>, <<67003, 67004>>, <<67072, 67382>>,
      <<67392, 67413>>, <<67424, 67431>>, <<67456, 67461>>, <<67463, 67504>>,
      <<67506, 67514>>, <<67584, 67589>>, <<67592, 67592>>, <<67594, 67637>>,
      <<67639, 67640>>, <<67644, 67644>>, <<67647, 67669>>, <<67672, 67702>>,
      <<67705, 67742>>, <<67751, 67759>>, <<67808, 67826>>, <<67828, 67829>>,
      <<67835, 67867>>, <<67872, 67897>>, <<67968, 68023>>, <<68028, 68047>>,
      <<68050, 68096>>, <<68112, 68115>>, <<68117, 68119>>, <<68121, 68149>>,
      <<68160, 68168>>, <<68192, 68222>>, <<68224, 68255>>, <<68288, 68295>>,
      <<68297, 68324>>, <<68331, 68335>>, <<68352, 68405>>, <<68416, 68437>>,
      <<68440, 68466>>, <<68472, 68497>>, <<68521, 68527>>, <<68608, 68680>>,
      <<68736, 68786>>, <<68800, 68850>>, <<68858, 68899>>, <<68912, 68921>>,
      <<69216, 69246>>, <<69248, 69289>>, <<69296, 69297>>, <<69376, 69415>>,
      <<69424, 69445>>, <<69457, 69460>>, <<69488, 69505>>, <<69552, 69579>>,
      <<69600, 69622>>, <<69635, 69687>>, <<69714, 69743>>, <<69745, 69746>>,
      <<69749, 69749>>, <<69763, 69807>>, <<69840, 69864>>, <<69872, 69881>>,
      <<69891, 69926>>, <<69942, 69951>>, <<69956, 69956>>, <<69959, 69959>>,
      <<69968, 70002>>, <<70006, 70006>>, <<70019, 70066>>, <<70081, 70084>>,
      <<70096, 70106>>, <<70108, 70108>>, <<70113, 70132>>, <<70144, 70161>>,
      <<70163, 70187>>, <<70272, 70278>>, <<70280, 70280>>, <<70282, 70285>>,
      <<70287, 70301>>, <<70303, 70312>>, <<70320, 70366>>, <<70384, 70393>>,
      <<70405, 70412>>, <<70415, 70416>>, <<70419, 70440>>, <<70442, 70448>>,
      <<70450, 70451>>, <<70453, 70457>>, <<70461, 70461>>, <<70480, 70480>>,
      <<70493, 70497>>, <<70656, 70708>>, <<70727, 70730>>, <<70736, 70745>>,
      <<70751, 70753>>, <<70784, 70831>>, <<70852, 70853>>, <<70855, 70855>>,
      <<70864, 70873>>, <<71040, 71086>>, <<71128, 71131>>, <<71168, 71215>>,
      <<71236, 71236>>, <<71248, 71257>>, <<71296, 71338>>, <<71352, 71352>>,
      <<71360, 71369>>, <<71424, 71450>>, <<71472, 71483>>, <<71488, 71494>>,
      <<71680, 71723>>, <<71840, 71922>>, <<71935, 71942>>, <<71945, 71945>>,
      <<71948, 71955>>, <<71957, 71958>>, <<71960, 71983>>, <<71999, 71999>>,
      <<72001, 72001>>, <<72016, 72025>>, <<72096, 72103>>, <<72106, 72144>>,
      <<72161, 72161>>, <<72163, 72163>>, <<72192, 72192>>, <<72203, 72242>>,
      <<72250, 72250>>, <<72272, 72272>>, <<72284, 72329>>, <<72349, 72349>>,
      <<72368, 72440>>, <<72704, 72712>>, <<72714, 72750>>, <<72768, 72768>>,
      <<72784, 72812>>, <<72818, 72847>>, <<72960, 72966>>, <<72968, 72969>>,
      <<72971, 73008>>, <<73030, 73030>>, <<73040, 73049>>, <<73056, 73061>>,
      <<73063, 73064>>, <<73066, 73097>>, <<73112, 73112>>, <<73120, 73129>>,
      <<73440, 73458>>, <<73648, 73648>>, <<73664, 73684>>, <<73728, 74649>>,
      <<74752, 74862>>, <<74880, 75075>>, <<77712, 77808>>, <<77824, 78894>>,
      <<82944, 83526>>, <<92160, 92728>>, <<92736, 92766>>, <<92768, 92777>>,
      <<92784, 92862>>, <<92864, 92873>>, <<92880, 92909>>, <<92928, 92975>>,
      <<92992, 92995>>, <<93008, 93017>>, <<93019, 93025>>, <<93027, 93047>>,
      <<93053, 93071>>, <<93760, 93846>>, <<93952, 94026>>, <<94032, 94032>>,
      <<94099, 94111>>, <<94176, 94177>>, <<94179, 94179>>, <<94208, 100343>>,
      <<100352, 101589>>, <<101632, 101640>>, <<110576, 110579>>, <<110581, 110587>>,
      <<110589, 110590>>, <<110592, 110882>>, <<110928, 110930>>, <<110948, 110951>>,
      <<110960, 111355>>, <<113664, 113770>>, <<113776, 113788>>, <<113792, 113800>>,
      <<113808, 113817>>, <<119520, 119539>>, <<119648, 119672>>, <<119808, 119892>>,
      <<119894, 119964>>, <<119966, 119967>>, <<119970, 119970>>, <<119973, 119974>>,
      <<119977, 119980>>, <<119982, 119993>>, <<119995, 119995>>, <<119997, 120003>>,
      <<120005, 120069>>, <<120071, 120074>>, <<120077, 120084>>, <<120086, 120092>>,
      <<120094, 120121>>, <<120123, 120126>>, <<120128, 120132>>, <<120134, 120134>>,
      <<120138, 120144>>, <<120146, 120485>>, <<120488, 120512>>, <<120514, 120538>>,
      <<120540, 120570>>, <<120572, 120596>>, <<120598, 120628>>, <<120630, 120654>>,
      <<120656, 120686>>, <<120688, 120712>>, <<120714, 120744>>, <<120746, 120770>>,
      <<120772, 120779>>, <<120782, 120831>>, <<122624, 122654>>, <<123136, 123180>>,
      <<123191, 123197>>, <<123200, 123209>>, <<123214, 123214>>, <<123536, 123565>>,
      <<123584, 123627>>, <<123632, 123641>>, <<124896, 124902>>, <<124904, 124907>>,
      <<124909, 124910>>, <<124912, 124926>>, <<124928, 125124>>, <<125127, 125135>>,
      <<125184, 125251>>, <<125259, 125259>>, <<125264, 125273>>, <<126065, 126123>>,
      <<126125, 126127>>, <<126129, 126132>>, <<126209, 126253>>, <<126255, 126269>>,
      <<126464, 126467>>, <<126469, 126495>>, <<126497, 126498>>, <<126500, 126500>>,
      <<126503, 126503>>, <<126505, 126514>>, <<126516, 126519>>, <<126521, 126521>>,
      <<126523, 126523>>, <<126530, 126530>>, <<126535, 126535>>, <<126537, 126537>>,
      <<126539, 126539>>, <<126541, 126543>>, <<126545, 126546>>, <<126548, 126548>>,
      <<126551, 126551>>, <<126553, 126553>>, <<126555, 126555>>, <<126557, 126557>>,
      <<126559, 126559>>, <<126561, 126562>>, <<126564, 126564>>, <<126567, 126570>>,
      <<126572, 126578>>, <<126580, 126583>>, <<126585, 126588>>, <<126590, 126590>>,
      <<126592, 126601>>, <<126603, 126619>>, <<126625, 126627>>, <<126629, 126633>>,
      <<126635, 126651>>, <<127232, 127244>>, <<130032, 130041>>, <<131072, 173791>>,
      <<173824, 177976>>, <<177984, 178205>>, <<178208, 183969>>, <<183984, 191456>>,
      <<194560, 195101>>, <<196608, 201546>> }

\* \w of a str pattern
WordChars == UNION {r[1]..r[2] : r \in WordRanges}

RECURSIVE WordRun(_)
\* length of the longest run of \w characters at the start of s
WordRun(s) == IF s # <<>> /\ Head(s) \in WordChars THEN 1 + WordRun(Tail(s)) ELSE 0

chDisplay == Chars("display:")
chNoneSemi == Chars("none;")

\* index of the first "}" of s, 0 when s has none
FirstBrace(s) ==
    IF \E i \in DOMAIN s : s[i] = Ord["}"]
    THEN CHOOSE i \in DOMAIN s : s[i] = Ord["}"] /\ \A j \in 1..(i - 1) : s[j] # Ord["}"]
    ELSE 0

\* whether display:\s*none; occurs in s
HasDisplayNone(s) ==
    \E i \in DOMAIN s :
        /\ StartsWith(From(s, i), chDisplay)
        /\ StartsWith(LStrip(From(s, i + Len(chDisplay))), chNoneSemi)

\* re.match(r'\s*\.(\w+)\s*{[^}]*display:\s*none;[^}]*}', css): None, or
\* Some(group 1). The match is anchored at the start of css, so only the first
\* rule of a style block is looked at.
HiddenClass(css) ==
    LET a == LStrip(css)
    IN  IF ~StartsWith(a, Chars(".")) THEN None
        ELSE LET b == Tail(a)
                 n == WordRun(b)
                 c == LStrip(From(b, n + 1))
             IN  IF n = 0 \/ ~StartsWith(c, Chars("{")) THEN None
                 ELSE LET d    == Tail(c)
                          stop == FirstBrace(d)
                      IN  IF stop = 0 \/ ~HasDisplayNone(SubSeq(d, 1, stop - 1)) THEN None
                          ELSE Some(SubSeq(b, 1, n))

RECURSIVE CleanStyles(_, _, _)
\* the loop of _clean over full_page.find_all('style'), a list made before the
\* loop runs: `styles` are the style tags as found, root the tree so far.
\* A style tag that an earlier round decomposed has no .string any more, one
\* that has no single string never had: re.match(pattern, None) raises.
CleanStyles(root, cid, styles) ==
    IF styles = <<>> THEN [err |-> "", root |-> root]
    ELSE LET st   == Head(styles)
             live == NodeOf(root, st.id)
             css  == IF live = None THEN None ELSE StringOf(live[1])
         IN  IF css = None THEN [err |-> "TypeError", root |-> root]
             ELSE LET m == HiddenClass(css[1])
                      c == NodeOf(root, cid)[1]
                  IN  IF m = None THEN CleanStyles(root, cid, Tail(styles))
                      ELSE CleanStyles(Remove(root, Range(Ids(FindAllClass(c, m[1])))),
                                       cid, Tail(styles))

\* _clean(self, contents, full_page), on the tree that holds both
Clean(root, cid) ==
    LET cleaned == SiteClean(root, cid)
    IN  CleanStyles(cleaned, cid, FindAllTag(cleaned, "style"))

(***************************************************************************)
(* RoyalRoad._clean_spoilers                                               *)
(***************************************************************************)
chSpoilerOpen == Chars("[SPOILER - ")

\* spoiler_title: the trimmed text of the label, ' ' when that is empty
SpoilerTitle(small) ==
    LET t == GetTextStrip(small) IN IF t = <<>> THEN Chars(" ") ELSE t

\* spoiler_header_tag: <strong class="spoiler-header">[SPOILER - title]</strong>
SpoilerHeaderTag(title) ==
    Elem("strong", Some(<<Chars("spoiler-header")>>), None,
         <<Text(chSpoilerOpen \o title \o Chars("]"))>>)

RECURSIVE CleanSpoilers(_, _)
\* the loop of _clean_spoilers over content.find_all(class_='spoiler'), a list
\* made before the loop runs: sids are the identities of the spoilers found.
\* A spoiler that is no longer in the tree was inside an unwrapped spoiler and
\* outside its spoiler-inner: every div below it was extracted with the
\* wrapper, so its label lookup finds nothing.
CleanSpoilers(root, sids) ==
    IF sids = <<>> THEN [err |-> "", root |-> root]
    ELSE LET sid     == Head(sids)
             spoiler == NodeOf(root, sid)
             small   == IF spoiler = None THEN None
                        ELSE First(FindAllTagClass(spoiler[1], "div", clsSmalltext))
         IN  IF small = None THEN [err |-> "AttributeError", root |-> root]
             ELSE LET tag     == SpoilerHeaderTag(SpoilerTitle(small[1]))
                      content == First(FindAllTagClass(spoiler[1], "div", clsSpoilerContent))
                      inner   == IF content = None THEN None
                                 ELSE First(FindAllTagClass(content[1], "div", clsSpoilerInner))
                  IN  IF inner = None THEN CleanSpoilers(root, Tail(sids))
                      ELSE LET header == Renumber(tag, FreshId(root))
                               shown  == [inner[1] EXCEPT !.style = Some(<<>>)]
                               placed == InsertBefore(root, sid, <<header, shown>>)
                           IN  CleanSpoilers(Remove(placed, {sid}), Tail(sids))

(***************************************************************************)
(* RoyalRoad._chapter                                                      *)
(***************************************************************************)
Raised(e) == [err |-> e, content |-> <<>>, updated |-> <<>>]

\* lines 94-103: the content string with the page's author notes around it
WithAuthorNotes(root, content) ==
    LET author_note == FindAllTagClass(root, "div", clsAuthorNote) IN
    IF Len(author_note) = 1 THEN
        LET cc    == FindAllTagClass(root, "div", clsChapterContent)[1]
            first == FindAllTag(ParentOf(root, cc.id)[1], "div")[1]
        IN  IF first.cls = None THEN [err |-> "KeyError", content |-> <<>>]
            ELSE IF clsAuthorNote \in Range(first.cls[1])
            THEN [err |-> "", content |-> Str(author_note[1]) \o chHr \o content]
            ELSE [err |-> "", content |-> content \o chHr \o Str(author_note[1])]
    ELSE IF Len(author_note) = 2 THEN
        [err |-> "", content |-> Str(author_note[1]) \o chHr \o content
                                 \o chHr \o Str(author_note[2])]
    ELSE [err |-> "", content |-> content]

\* the characters int() skips around a number: the ASCII whitespace and the
\* Unicode spaces outside ASCII, not the separators 28 to 31
IntSpace == Whitespace \ (28..31)

RECURSIVE LSkip(_, _)
LSkip(s, skipped) ==
    IF s # <<>> /\ Head(s) \in skipped THEN LSkip(Tail(s), skipped) ELSE s

RECURSIVE RSkip(_, _)
RSkip(s, skipped) ==
    IF s # <<>> /\ s[Len(s)] \in skipped THEN RSkip(SubSeq(s, 1, Len(s) - 1), skipped)
    ELSE s

\* the value, 0 to 9, of a decimal digit
DigitValue(c) == c - CHOOSE z \in DigitZeros : z <= c /\ c <= z + 9

\* a sequence of digit values without its leading zeros
Canonical(ds) ==
    IF \A i \in DOMAIN ds : ds[i] = 0 THEN <<0>>
    ELSE LET first == CHOOSE i \in DOMAIN ds : ds[i] # 0 /\ \A j \in 1..(i - 1) : ds[j] = 0
         IN  SubSeq(ds, first, Len(ds))

\* int(s) of a str: None when it raises ValueError, else Some(integer). An
\* integer is [neg, mag], mag being the digit values of its magnitude. The
\* str is blanks, an optional sign, decimal digits of any script with single
\* underscores between them, blanks; more than 4300 digits are refused
\* (sys.get_int_max_str_digits()).
IntOf(s) ==
    LET t          == RSkip(LSkip(s, IntSpace), IntSpace)
        signed     == t # <<>> /\ Head(t) \in {Ord["+"], Ord["-"]}
        body       == IF signed THEN Tail(t) ELSE t
        IsDigit(i) == body[i] \in Digits
        wellformed == /\ body # <<>>
                      /\ IsDigit(1)
                      /\ IsDigit(Len(body))
                      /\ \A i \in DOMAIN body :
                            \/ IsDigit(i)
                            \/ body[i] = Ord["_"] /\ i < Len(body) /\ IsDigit(i + 1)
        InDigits(c) == c \in Digits
        ds         == SelectSeq(body, InDigits)
        mag        == Canonical([i \in DOMAIN ds |-> DigitValue(ds[i])])
    IN  IF ~wellformed \/ Len(ds) > 4300 THEN None
        ELSE Some([neg |-> signed /\ Head(t) = Ord["-"] /\ mag # <<0>>, mag |-> mag])

\* str(n) of an integer
IntStr(n) ==
    (IF n.neg THEN Chars("-") ELSE <<>>) \o [i \in DOMAIN n.mag |-> Ord["0"] + n.mag[i]]

\* the magnitude a literal of ASCII digits denotes
Mag(literal) == [i \in 1..Len(literal) |-> Ord[SubSeq(literal, i, i)] - Ord["0"]]

\* a <= b, of magnitudes
MagLeq(a, b) ==
    \/ Len(a) < Len(b)
    \/ /\ Len(a) = Len(b)
       /\ \/ a = b
          \/ \E i \in DOMAIN a : a[i] < b[i] /\ \A j \in 1..(i - 1) : a[j] = b[j]

\* datetime.datetime.fromtimestamp(n), the local time zone being UTC, on a
\* platform with a 64-bit time_t: "" when it returns a datetime (years 1 to
\* 9999), else the exception it raises
FromTimestamp(n) ==
    LET Within(most, least) ==
            IF n.neg THEN MagLeq(n.mag, Mag(least)) ELSE MagLeq(n.mag, Mag(most))
    IN  IF Within("253402300799", "62135510400") THEN ""
        ELSE IF Within("67768036191676799", "67768040609740800") THEN "ValueError"
        ELSE IF Within("9223372036854775807", "9223372036854775808") THEN "OSError"
        ELSE "OverflowError"

\* lines 105-107: the unixtime attribute of the time element of the profile
\* block, converted by int() and fromtimestamp(). The datetime returned is
\* written as the integer it is the time of.
Updated(root) ==
    LET info == First(FindAllClass(root, clsProfileInfo))
        time == IF info = None THEN None ELSE First(FindAllTag(info[1], "time"))
    IN  IF time = None THEN [err |-> "AttributeError", updated |-> <<>>]
        ELSE IF time[1].unixtime = None THEN [err |-> "TypeError", updated |-> <<>>]
        ELSE LET n == IntOf(time[1].unixtime[1])
             IN  IF n = None THEN [err |-> "ValueError", updated |-> <<>>]
                 ELSE IF FromTimestamp(n[1]) # ""
                 THEN [err |-> FromTimestamp(n[1]), updated |-> <<>>]
                 ELSE [err |-> "", updated |-> IntStr(n[1])]

\* lines 86-89: the chapter-content block is looked up and cleaned. The
\* result names the block (cid) in the cleaned tree (root).
ChapterCleaned(root) ==
    LET found == First(FindAllTagClass(root, "div", clsChapterContent)) IN
    IF found = None THEN [err |-> "AttributeError", root |-> root, cid |-> 0]
    ELSE LET cleaned == Clean(root, found[1].id)
         IN  [err |-> cleaned.err, root |-> cleaned.root, cid |-> found[1].id]

\* line 90: the spoilers of the block are normalized, whatever the options say
ChapterSpoilers(st) ==
    IF st.err # "" THEN st
    ELSE LET spoilers == FindAllClass(NodeOf(st.root, st.cid)[1], clsSpoiler)
             done     == CleanSpoilers(st.root, Ids(spoilers))
         IN  [err |-> done.err, root |-> done.root, cid |-> st.cid]

\* lines 92-109: the block is serialized, the author notes put around it and
\* the timestamp read
ChapterFinish(st) ==
    IF st.err # "" THEN Raised(st.err)
    ELSE LET noted == WithAuthorNotes(st.root, Str(NodeOf(st.root, st.cid)[1]))
             time  == Updated(st.root)
         IN  IF noted.err # "" THEN Raised(noted.err)
             ELSE IF time.err # "" THEN Raised(time.err)
             ELSE [err |-> "", content |-> noted.content, updated |-> time.updated]

\* _chapter(self, url, chapterid) on the page that self._soup(url) returned:
\* what it returns (err = "") or the exception it raises
Chapter(root) == ChapterFinish(ChapterSpoilers(ChapterCleaned(root)))

(***************************************************************************)
(* Chapter pages: the bounded family of parsed pages _chapter is run on    *)
(***************************************************************************)
Div(cls, kids) == Elem("div", Some(<<Chars(cls)>>), None, kids)

\* a label with a no-break space (U+00A0) before it and a space after it
chHint == <<160>> \o Chars("Hint ")
chAnswer == Chars("42")

\* .spoiler-inner, hidden by an inline style as the site serves it
SpoilerInner(kids) ==
    Elem("div", Some(<<clsSpoilerInner>>), Some(Chars("display:none")), kids)

\* a spoiler as the site serves it: label, toggle, content, inner
FullSpoiler(label, innerKids) ==
    Div("spoiler", <<Div("smalltext", <<Text(label)>>),
                     Elem("input", None, None, <<>>),
                     Div("spoilerContent", <<SpoilerInner(innerKids)>>)>>)

Para(chars) == Elem("p", None, None, <<Text(chars)>>)

\* ".f" + U+00F6 + "o": a rule's class name with a letter outside ASCII
chFooUmlaut == <<Ord["."], Ord["f"], 246, Ord["o"]>>

\* the children of the chapter-content block
Bodies ==
    { <<Para(Chars("a"))>>,
      <<Para(Chars("a")), Elem("span", Some(<<Chars("foo")>>), None, <<Text(Chars("x"))>>),
        Para(Chars("b"))>>,
      <<Para(Chars("a")), Elem("span", Some(<<Tail(chFooUmlaut)>>), None, <<Text(Chars("y"))>>)>>,
      <<Elem("script", None, None, <<Text(Chars("j"))>>), Para(Chars("a"))>>,
      \* one spoiler: labelled, with a blank label, with an empty label element
      <<Para(Chars("a")), FullSpoiler(chHint, <<Text(chAnswer)>>), Para(Chars("b"))>>,
      <<FullSpoiler(<<160, 32>>, <<Text(chAnswer)>>)>>,
      <<Div("spoiler", <<Div("smalltext", <<>>),
                         Div("spoilerContent", <<SpoilerInner(<<Text(chAnswer)>>)>>)>>)>>,
      \* a label with a style block before its text
      <<Div("spoiler", <<Div("smalltext", <<Elem("style", None, None, <<Text(Chars("x{}"))>>),
                                             Text(chHint)>>),
                         Div("spoilerContent", <<SpoilerInner(<<Text(chAnswer)>>)>>)>>)>>,
      \* no label element
      <<Div("spoiler", <<Div("spoilerContent", <<SpoilerInner(<<Text(chAnswer)>>)>>)>>)>>,
      <<Elem("span", Some(<<clsSpoiler>>), None, <<Text(Chars("s"))>>)>>,
      \* labelled, but the content block or the inner block is missing
      <<Div("spoiler", <<Div("smalltext", <<Text(chHint)>>), Text(Chars("s"))>>)>>,
      <<Div("spoiler", <<Div("smalltext", <<Text(chHint)>>),
                         Div("spoilerContent", <<Text(Chars("s"))>>)>>)>>,
      \* two spoilers in a row; a spoiler inside another's inner block; a
      \* spoiler inside another's content block but outside its inner block
      <<FullSpoiler(chHint, <<Text(chAnswer)>>), FullSpoiler(Chars("B"), <<Text(Chars("7"))>>)>>,
      <<FullSpoiler(chHint, <<FullSpoiler(Chars("B"), <<Text(Chars("7"))>>)>>)>>,
      <<Div("spoiler", <<Div("smalltext", <<Text(chHint)>>),
                         Div("spoilerContent",
                             <<SpoilerInner(<<Text(chAnswer)>>),
                               FullSpoiler(Chars("B"), <<Text(Chars("7"))>>)>>)>>)>>,
      \* a hidden warning inside a spoiler
      <<FullSpoiler(chHint, <<Text(chAnswer),
                              Elem("span", Some(<<Chars("foo")>>), None, <<Text(Chars("x"))>>)>>)>> }

chFoo == Chars(".foo")
chBar == Chars(".bar")
chColorRed == Chars("color:red;")

\* the texts of the inline style blocks
StyleTexts ==
    { chFoo \o Chars("{") \o chDisplay \o chNoneSemi \o Chars("}"),
      chFoo \o Chars("{") \o chDisplay \o Chars("none") \o Chars("}"),
      <<160>> \o chFoo \o Chars(" { ") \o chColorRed \o Chars(" ") \o chDisplay
          \o <<10>> \o chNoneSemi \o Chars(" }"),
      chFooUmlaut \o Chars("{") \o chDisplay \o chNoneSemi \o Chars("}"),
      chBar \o Chars("{") \o chColorRed \o Chars("}"),
      chBar \o Chars("{") \o chColorRed \o Chars("}") \o chFoo \o Chars("{") \o chDisplay
          \o chNoneSemi \o Chars("}"),
      chBar \o Chars("{") \o chDisplay \o chNoneSemi \o Chars("}") }

StyleTag(css) == Elem("style", None, None, <<Text(css)>>)

\* Largest number of style blocks with text on a page of the family
MaxStyles == 1

RECURSIVE StyleLists(_)
\* the sequences of at most n style blocks, each with one of the texts
StyleLists(n) ==
    IF n = 0 THEN {<<>>}
    ELSE StyleLists(n - 1)
         \cup {Append(l, StyleTag(t)) : l \in StyleLists(n - 1), t \in StyleTexts}

\* the style blocks of a page: up to MaxStyles with text, some pairs of them,
\* and one that is empty
Styles ==
    StyleLists(MaxStyles)
    \cup { <<Elem("style", None, None, <<>>)>>,
           <<StyleTag(chBar \o Chars("{") \o chDisplay \o chNoneSemi \o Chars("}")),
             StyleTag(chFoo \o Chars("{") \o chDisplay \o chNoneSemi \o Chars("}"))>> }

AuthorNote(chars) == Div("author-note-portlet", <<Para(chars)>>)

\* what precedes the chapter-content block inside its parent
Pres ==
    { <<>>,
      <<AuthorNote(Chars("N"))>>,
      <<Elem("div", None, None, <<Text(Chars("d"))>>)>>,
      <<Elem("h1", None, None, <<Text(Chars("t"))>>), AuthorNote(Chars("N"))>>,
      <<Div("ad", <<>>)>> }

\* what follows it
Posts == { <<>>, <<AuthorNote(Chars("M"))>> }

\* the profile block with a time element of this unixtime attribute
Profile(unixtime) ==
    <<Div("profile-info", <<[Elem("time", None, None, <<>>) EXCEPT !.unixtime = unixtime]>>)>>

\* the profile blocks of a page: with a timestamp, with one written with a
\* no-break space and leading zeros, with text that is no integer, with the
\* first second of the year 10000, and none
Profiles ==
    { Profile(Some(Chars("1700000000"))),
      Profile(Some(<<160>> \o Chars("0012"))),
      Profile(Some(Chars("abc"))),
      Profile(Some(Chars("253402300800"))),
      <<>> }

\* a chapter page as the parser hands it over
BuildPage(styles, pre, body, post, profile) ==
    Renumber(
        Parsed(Elem("[document]", None, None,
                    <<Elem("html", None, None,
                           <<Elem("head", None, None, styles),
                             Elem("body", None, None,
                                  <<Div("portlet-body",
                                        pre \o <<Div("chapter-content", body)>> \o post)>>
                                  \o profile)>>)>>),
               "NavigableString"),
        1)

ChapterPages ==
    { BuildPage(st, pre, body, post, prof) :
        st \in Styles, pre \in Pres, body \in Bodies, post \in Posts, prof \in Profiles }

\* a page without a chapter-content block
NoContentPage ==
    Renumber(Elem("[document]", None, None, <<Elem("html", None, None, <<>>)>>), 1)

\* a placeholder for "no page yet"
NoPage == Elem("[document]", None, None, <<>>)

(***************************************************************************)
(* Specifications of the two functions                                     *)
(***************************************************************************)
\* http.client._MAXHEADERS as the interpreter sets it, and as extract() sets it
DefaultMaxHeaders == 100
RaisedMaxHeaders == 1000

\* extract() has not returned or raised yet
NothingReturned == [status |-> "none", story |-> None]

NoOptions == [offset |-> None, limit |-> None, skip_spoilers |-> TRUE]

ExtractIdle ==
    /\ maxheaders = DefaultMaxHeaders
    /\ footnotes = <<>>
    /\ pc = "idle"
    /\ extract_url = <<>>
    /\ soup = None
    /\ original_maxheaders = None
    /\ index = 0
    /\ story = None
    /\ returned = NothingReturned
    /\ produced = <<>>
    /\ fetched = <<>>
    /\ calls = 0

NotCalled == [done |-> FALSE, err |-> "", content |-> <<>>, updated |-> <<>>]

InitChapter ==
    /\ page \in ChapterPages \cup {NoContentPage}
    /\ chapter_result = NotCalled
    /\ options \in {[NoOptions EXCEPT !.skip_spoilers = b] : b \in BOOLEAN}
    /\ match_domain = <<>> /\ match_url = <<>>
    /\ match_result = [done |-> FALSE, value |-> None]
    /\ ExtractIdle

\* self._chapter(url, chapterid), the page being what self._soup(url) gave
DoChapter ==
    /\ ~chapter_result.done
    /\ chapter_result' = [done |-> TRUE] @@ Chapter(page)
    /\ UNCHANGED <<page, options, matchVars, extractVars>>

NextChapter == DoChapter

SpecChapter == InitChapter /\ [][NextChapter]_vars

(***************************************************************************)
(* URLs handed to matches                                                  *)
(***************************************************************************)
\* Longest tail, in characters, after ".../fiction/" in a URL of the family
MaxTail == 3

\* the characters of the tails: two ASCII digits, a letter, the slash, and
\* the Arabic-Indic digit three (U+0663)
TailChars == {Ord["1"], Ord["7"], Ord["a"], Ord["/"], 1635}

RECURSIVE Tails(_)
Tails(n) ==
    IF n = 0 THEN {<<>>}
    ELSE Tails(n - 1) \cup {Append(t, c) : t \in {u \in Tails(n - 1) : Len(u) = n - 1},
                                           c \in TailChars}

UrlSchemes == {chHttp, chHttp \o Chars("s"), Chars("ftp"), Chars("HTTP")}
UrlWwws == {<<>>, chWww, Chars("www")}
UrlHosts == {chRoyalroad, chRoyalroadldl, Chars("x") \o chRoyalroad}
UrlPaths ==
    { chComFiction,
      Chars(".com/fiction"),
      Chars(".org/fiction/") }

Urls ==
    { sc \o chSep \o w \o h \o pa \o t :
        sc \in UrlSchemes, w \in UrlWwws, h \in UrlHosts, pa \in UrlPaths,
        t \in Tails(MaxTail) }
    \cup { Chars(" ") \o chHttp \o chSep \o chRoyalroad \o chComFiction \o Chars("1"),
           chHttp \o Chars(":/") \o chRoyalroad \o chComFiction \o Chars("1"),
           <<>> }

InitMatch ==
    /\ match_domain \in Domains
    /\ match_url \in Urls
    /\ match_result = [done |-> FALSE, value |-> None]
    /\ page = NoPage
    /\ chapter_result = NotCalled
    /\ options = NoOptions
    /\ ExtractIdle

\* cls.matches(url)
DoMatches ==
    /\ ~match_result.done
    /\ match_result' = [done |-> TRUE, value |-> Matches(match_domain, match_url)]
    /\ UNCHANGED <<match_domain, match_url, page, chapter_result, options, extractVars>>

NextMatch == DoMatches

SpecMatch == InitMatch /\ [][NextMatch]_vars

(***************************************************************************)
(* C5                                                                      *)
(***************************************************************************)
\* the starts scheme://[www.]domain.com/fiction/ of a story URL
StoryStarts(domain) ==
    { sc \o chSep \o w \o domain \o chComFiction :
        sc \in {chHttp, chHttp \o Chars("s")}, w \in {<<>>, chWww} }

\* url is start + n digits (n >= 1) + something that does not begin with a
\* digit, a digit being any Unicode decimal digit
IsIdAt(url, start, n) ==
    /\ StartsWith(url, start)
    /\ n >= 1
    /\ Len(start) + n <= Len(url)
    /\ \A i \in 1..n : url[Len(start) + i] \in Digits
    /\ Len(url) > Len(start) + n => url[Len(start) + n + 1] \notin Digits

\* url has the form the claim names: after the id, nothing or "/..."
IsIdThenSlashAt(url, start, n) ==
    /\ IsIdAt(url, start, n)
    /\ Len(url) > Len(start) + n => url[Len(start) + n + 1] = Ord["/"]

\* the canonical URL of a url whose id is the n digits after start
CanonicalAt(url, start, n) == SubSeq(url, 1, Len(start) + n) \o Chars("/")

\* C5 as claimed: matches returns the canonical story URL exactly for the URLs
\* of the form http(s)://[www.]<domain>.com/fiction/<digits>[/...], and nothing
\* for every other URL.
C5_AsClaimed ==
    match_result.done =>
        IF \E st \in StoryStarts(match_domain), n \in 1..Len(match_url) :
               IsIdThenSlashAt(match_url, st, n)
        THEN \E st \in StoryStarts(match_domain), n \in 1..Len(match_url) :
               /\ IsIdThenSlashAt(match_url, st, n)
               /\ match_result.value = Some(CanonicalAt(match_url, st, n))
        ELSE match_result.value = None

\* C5 (amended): matches returns the canonical story URL
\* scheme://[www.]domain.com/fiction/<id>/ exactly for the URLs that begin with
\* http(s)://[www.]<domain>.com/fiction/<digits>, whatever follows the digits
\* (a "/" and a slug, or any other characters), the digits being decimal
\* digits of any script, and nothing for every other URL; it changes no state.
C5_MatchesCanonical ==
    /\ match_result.done =>
        IF \E st \in StoryStarts(match_domain), n \in 1..Len(match_url) :
               IsIdAt(match_url, st, n)
        THEN \E st \in StoryStarts(match_domain), n \in 1..Len(match_url) :
               /\ IsIdAt(match_url, st, n)
               /\ match_result.value = Some(CanonicalAt(match_url, st, n))
        ELSE match_result.value = None
    /\ maxheaders = DefaultMaxHeaders /\ footnotes = <<>> /\ pc = "idle"

\* a URL with a slug was matched and the slug discarded
C5_Witness ==
    /\ match_result.done
    /\ match_result.value # None
    /\ Len(match_url) > Len(match_result.value[1])

(***************************************************************************)
(* RoyalRoad.extract                                                       *)
(***************************************************************************)
\* Largest number of rows of a chapter table, and of extract() calls on the
\* site instance
MaxRows == 3
MaxCalls == 2

DigitSeq == Chars("0123456789")

\* the rows of a chapter table: tr[data-url] elements, each with a titled link
ToC(n) == [i \in 1..n |-> [data_url |-> Chars("/c") \o <<DigitSeq[i]>>,
                           title |-> Some(Chars(" T") \o <<DigitSeq[i]>>)]]

\* a landing page with everything extract() reads from it. base is None when
\* the head has no base element, else Some(href), href being None when the
\* element has no href attribute; description is the markup of the
\* description block, None when the page has none
GoodLanding(n) ==
    [head |-> TRUE, base |-> None, h1 |-> Some(Chars(" S ")),
     author |-> Some(Chars("A")), og_url |-> Some(Chars("u")), thumbnail |-> Some(Chars("i")),
     description |-> Some(Chars("<div class=\"description\">d</div>")),
     tags |-> <<Chars("g")>>, rows |-> ToC(n)]

\* the landing pages the site may answer with: complete ones, and ones that
\* lack one element extract() requires
LandingPages ==
    { GoodLanding(n) : n \in 0..MaxRows }
    \cup { [GoodLanding(1) EXCEPT !.head = FALSE],
           [GoodLanding(1) EXCEPT !.base = Some(Some(Chars("b")))],
           [GoodLanding(1) EXCEPT !.base = Some(Some(<<>>))],
           [GoodLanding(1) EXCEPT !.base = Some(None)],
           [GoodLanding(1) EXCEPT !.description = None],
           [GoodLanding(1) EXCEPT !.h1 = None],
           [GoodLanding(1) EXCEPT !.author = None],
           [GoodLanding(1) EXCEPT !.og_url = None],
           [GoodLanding(1) EXCEPT !.thumbnail = None],
           [GoodLanding(2) EXCEPT !.rows[2].title = None] }

GoodProfile == Profile(Some(Chars("1700000000")))

\* the chapter pages the site may answer with during an extraction: a plain
\* one, one with a spoiler, and one on which _chapter raises
ExtractPages ==
    { BuildPage(<<>>, <<>>, <<Para(Chars("a"))>>, <<>>, GoodProfile),
      BuildPage(<<>>, <<>>, <<FullSpoiler(chHint, <<Text(chAnswer)>>)>>, <<>>, GoodProfile),
      BuildPage(<<>>, <<>>, <<Para(Chars("a"))>>, <<>>, <<>>) }

\* _chapter on each of these pages
ExtractChapters == [p \in ExtractPages |-> Chapter(p)]

ExtractUrls ==
    { chHttp \o Chars("s") \o chSep \o chRoyalroad \o chComFiction \o Chars("1/a"),
      chHttp \o Chars("s") \o chSep \o chRoyalroad \o Chars(".com/") }

OptionValues == {None} \cup {Some(n) : n \in 0..MaxRows}

\* self._join_url(base, ref): the framework's URL resolution, kept as the pair
\* it resolves
JoinUrl(base, ref) == [base |-> base, ref |-> ref]

\* Python's truth value of an option that is None or an integer
Truthy(opt) == opt # None /\ opt[1] # 0

\* lines 67-70: whether the loop passes over the row of this index
Skipped(opts, i) ==
    \/ Truthy(opts.offset) /\ i < opts.offset[1]
    \/ Truthy(opts.limit) /\ i >= opts.limit[1]

\* a RoyalRoad instance with its options; match_domain holds the class's domain
Init ==
    /\ options \in [offset : OptionValues, limit : OptionValues, skip_spoilers : BOOLEAN]
    /\ match_domain = chRoyalroad /\ match_url = <<>>
    /\ match_result = [done |-> FALSE, value |-> None]
    /\ page = NoPage
    /\ chapter_result = NotCalled
    /\ ExtractIdle

\* what every step of extract() leaves alone
Frame == UNCHANGED <<match_domain, match_url, match_result, page, chapter_result, options>>

\* an exception leaves extract(): nothing after the raising line runs
Abort ==
    /\ pc' = "idle"
    /\ returned' = [status |-> "error", story |-> None]

\* line 48 with a url the pattern does not match: .group on None raises
CallBadUrl ==
    /\ pc = "idle" /\ calls < MaxCalls
    /\ \E u \in ExtractUrls :
        /\ GroupEnd(match_domain, u) = 0
        /\ extract_url' = u
    /\ calls' = calls + 1
    /\ Abort
    /\ soup' = None /\ original_maxheaders' = None /\ index' = 0 /\ story' = None
    /\ produced' = <<>> /\ fetched' = <<>>
    /\ UNCHANGED <<maxheaders, footnotes>>
    /\ Frame

\* extract(url) is called; line 48 finds the work id
Call ==
    /\ pc = "idle" /\ calls < MaxCalls
    /\ \E u \in ExtractUrls :
        /\ GroupEnd(match_domain, u) > 0
        /\ extract_url' = u
    /\ calls' = calls + 1
    /\ pc' = "landing"
    /\ returned' = NothingReturned
    /\ soup' = None /\ original_maxheaders' = None /\ index' = 0 /\ story' = None
    /\ produced' = <<>> /\ fetched' = <<>>
    /\ UNCHANGED <<maxheaders, footnotes>>
    /\ Frame

\* line 49: self._soup(...) fetches the landing page and fails
FetchLandingFails ==
    /\ pc = "landing"
    /\ fetched' = Append(fetched, [what |-> "landing", ceiling |-> maxheaders])
    /\ Abort
    /\ UNCHANGED <<maxheaders, footnotes, extract_url, soup, original_maxheaders, index, story,
                   produced, calls>>
    /\ Frame

\* line 49: self._soup(...) fetches and parses the landing page
FetchLanding ==
    /\ pc = "landing"
    /\ fetched' = Append(fetched, [what |-> "landing", ceiling |-> maxheaders])
    /\ \E l \in LandingPages : soup' = Some(l)
    /\ pc' = "begin"
    /\ UNCHANGED <<maxheaders, footnotes, extract_url, original_maxheaders, index, story,
                   returned, produced, calls>>
    /\ Frame

\* line 52 on a page without a head: soup.head.base raises
BaseFails ==
    /\ pc = "begin"
    /\ ~soup[1].head
    /\ Abort
    /\ UNCHANGED <<maxheaders, footnotes, extract_url, soup, original_maxheaders, index, story,
                   produced, fetched, calls>>
    /\ Frame

\* whether lines 57-64 find every element they dereference
SectionComplete(l) ==
    l.h1 # None /\ l.author # None /\ l.og_url # None /\ l.thumbnail # None

\* line 52: soup.head.base and soup.head.base.get('href') or url. The href
\* of the base element when there is one and it is not empty, else the url
Base(l, u) ==
    IF l.base # None /\ l.base[1] # None /\ l.base[1][1] # <<>> THEN l.base[1][1] ELSE u

\* lines 57-64: the Section of a landing page, with no chapter yet
Section(l, u) ==
    [title |-> Strip(l.h1[1]),
     author |-> Strip(l.author[1]),
     url |-> Strip(l.og_url[1]),
     cover_url |-> JoinUrl(Base(l, u), l.thumbnail[1]),
     summary |-> Strip(IF l.description = None THEN Chars("None") ELSE l.description[1]),
     tags |-> [i \in DOMAIN l.tags |-> Strip(l.tags[i])],
     chapters |-> <<>>,
     footnotes |-> <<>>]

\* lines 52-64 on a page that lacks a required element: the ceiling is saved
\* and raised, then building the Section raises
SectionFails ==
    /\ pc = "begin"
    /\ soup[1].head
    /\ ~SectionComplete(soup[1])
    /\ original_maxheaders' = Some(maxheaders)
    /\ maxheaders' = RaisedMaxHeaders
    /\ Abort
    /\ UNCHANGED <<footnotes, extract_url, soup, index, story, produced, fetched, calls>>
    /\ Frame

\* Begin with line 55 left out: the ceiling is saved but not raised
BeginNoRaise ==
    /\ pc = "begin"
    /\ soup[1].head
    /\ SectionComplete(soup[1])
    /\ original_maxheaders' = Some(maxheaders)
    /\ story' = Some(Section(soup[1], extract_url))
    /\ index' = 0
    /\ pc' = "loop"
    /\ UNCHANGED <<maxheaders, footnotes, extract_url, soup, returned, produced, fetched,
                   calls>>
    /\ Frame

\* lines 52-64: the ceiling is saved and raised, the Section built
Begin ==
    /\ pc = "begin"
    /\ soup[1].head
    /\ SectionComplete(soup[1])
    /\ original_maxheaders' = Some(maxheaders)
    /\ maxheaders' = RaisedMaxHeaders
    /\ story' = Some(Section(soup[1], extract_url))
    /\ index' = 0
    /\ pc' = "loop"
    /\ UNCHANGED <<footnotes, extract_url, soup, returned, produced, fetched, calls>>
    /\ Frame

\* the row the loop is at (enumerate counts from 0)
Row == soup[1].rows[index + 1]

\* lines 66-70: the loop passes over a row outside offset/limit
SkipRow ==
    /\ pc = "loop"
    /\ index < Len(soup[1].rows)
    /\ Skipped(options, index)
    /\ index' = index + 1
    /\ UNCHANGED <<maxheaders, footnotes, pc, extract_url, soup, original_maxheaders, story,
                   returned, produced, fetched, calls>>
    /\ Frame

\* line 86: the fetch of the chapter page fails
FetchChapterFails ==
    /\ pc = "loop"
    /\ index < Len(soup[1].rows)
    /\ ~Skipped(options, index)
    /\ fetched' = Append(fetched, [what |-> "chapter", ceiling |-> maxheaders])
    /\ Abort
    /\ UNCHANGED <<maxheaders, footnotes, extract_url, soup, original_maxheaders, index, story,
                   produced, calls>>
    /\ Frame

\* the footnotes the generic cleaner may record while it cleans one chapter:
\* none, or one, marked with the call it was produced in
CleanerFootnotes == {<<>>, <<calls>>}

\* lines 71-75 when _chapter, or reading the row's title, raises: the page is
\* fetched, its content cleaned (footnotes recorded), and the exception leaves
\* extract()
ChapterFails ==
    /\ pc = "loop"
    /\ index < Len(soup[1].rows)
    /\ ~Skipped(options, index)
    /\ fetched' = Append(fetched, [what |-> "chapter", ceiling |-> maxheaders])
    /\ \E p \in ExtractPages, fn \in CleanerFootnotes :
        /\ ExtractChapters[p].err # "" \/ Row.title = None
        /\ footnotes' = footnotes \o fn
        /\ produced' = produced \o fn
    /\ Abort
    /\ UNCHANGED <<maxheaders, extract_url, soup, original_maxheaders, index, story, calls>>
    /\ Frame

\* lines 71-75: one chapter is fetched, cleaned and added to the story
AddChapter ==
    /\ pc = "loop"
    /\ index < Len(soup[1].rows)
    /\ ~Skipped(options, index)
    /\ fetched' = Append(fetched, [what |-> "chapter", ceiling |-> maxheaders])
    /\ \E p \in ExtractPages, fn \in CleanerFootnotes :
        LET got == ExtractChapters[p] IN
        /\ got.err = "" /\ Row.title # None
        /\ footnotes' = footnotes \o fn
        /\ produced' = produced \o fn
        /\ story' = Some([story[1] EXCEPT !.chapters =
                            Append(@, [title |-> Strip(Row.title[1]),
                                       contents |-> got.content,
                                       date |-> got.updated,
                                       url |-> JoinUrl(story[1].url, Row.data_url)])])
    /\ index' = index + 1
    /\ UNCHANGED <<maxheaders, pc, extract_url, soup, original_maxheaders, returned, calls>>
    /\ Frame

\* lines 77-82: the loop is over; the ceiling is put back, the footnotes
\* attached and reset, the story returned
Finish ==
    /\ pc = "loop"
    /\ index = Len(soup[1].rows)
    /\ maxheaders' = original_maxheaders[1]
    /\ returned' = [status |-> "story",
                    story |-> Some([story[1] EXCEPT !.footnotes = footnotes])]
    /\ footnotes' = <<>>
    /\ pc' = "idle"
    /\ UNCHANGED <<extract_url, soup, original_maxheaders, index, story, produced, fetched, calls>>
    /\ Frame

Next ==
    \/ CallBadUrl
    \/ Call
    \/ FetchLandingFails
    \/ FetchLanding
    \/ BaseFails
    \/ SectionFails
    \/ Begin
    \/ SkipRow
    \/ FetchChapterFails
    \/ ChapterFails
    \/ AddChapter
    \/ Finish

Spec == Init /\ [][Next]_vars

(***************************************************************************)
(* Claims about extract()                                                  *)
(***************************************************************************)
\* C1: whenever no extraction is in progress, after any sequence of extract()
\* calls that returned or failed, http.client._MAXHEADERS has the value it had
\* before the first call: every path out of extract() restores it.
C1_AsClaimed ==
    pc = "idle" => maxheaders = DefaultMaxHeaders

\* the 0-based indices i of n rows with offset <= i < limit, in order; an
\* unset offset is 0 and an unset limit is unbounded
WantedRows(opts, n) ==
    LET Test(i) == /\ opts.offset # None => opts.offset[1] <= i
                   /\ opts.limit # None => i < opts.limit[1]
    IN  SelectSeq([k \in 1..n |-> k - 1], Test)

\* C2: the chapters of a returned story are exactly the rows of the landing page
\* whose 0-based index i satisfies offset <= i < limit, in table order, for every
\* setting of offset and limit (unset, or an integer >= 0, 0 included).
C2_AsClaimed ==
    returned.status = "story" =>
        LET chapters == returned.story[1].chapters
            wanted   == WantedRows(options, Len(soup[1].rows))
        IN  [k \in DOMAIN chapters |-> chapters[k].url.ref]
              = [k \in DOMAIN wanted |-> soup[1].rows[wanted[k] + 1].data_url]

\* C9 as claimed: every page fetch of an extraction, the landing page's and
\* each chapter page's, happens while http.client._MAXHEADERS is at its raised
\* value.
C9_AsClaimed ==
    \A i \in DOMAIN fetched : fetched[i].ceiling = RaisedMaxHeaders

\* C9 (amended): every chapter page fetch of an extraction happens while
\* http.client._MAXHEADERS is at its raised value, 1000; the landing page is
\* fetched before the ceiling is raised, under the value that was in force
\* when extract() was called (the one extract() saves and later restores).
C9_ChapterFetchesUnderRaisedCeiling ==
    /\ \A i \in DOMAIN fetched :
          fetched[i].what = "chapter" => fetched[i].ceiling = RaisedMaxHeaders
    /\ pc = "loop" =>
          /\ fetched[1].what = "landing"
          /\ fetched[1].ceiling = original_maxheaders[1]

\* a first extraction has fetched its landing page under the default ceiling
\* and a chapter page under the raised one
C9_Witness ==
    /\ pc = "loop"
    /\ Len(fetched) >= 2
    /\ fetched[1] = [what |-> "landing", ceiling |-> DefaultMaxHeaders]
    /\ fetched[2] = [what |-> "chapter", ceiling |-> RaisedMaxHeaders]

\* C10: the footnotes of a returned story are exactly those produced while
\* that story's own chapters were cleaned, and self.footnotes is empty
\* whenever no extraction is in progress, also after calls that failed.
C10_AsClaimed ==
    /\ pc = "idle" => footnotes = <<>>
    /\ returned.status = "story" => returned.story[1].footnotes = produced

(***************************************************************************)
(* Claims about _chapter()                                                 *)
(***************************************************************************)
\* the page's chapter-content block cleaned (lines 86-89), and then with its
\* spoilers normalized (line 90)
Before == ChapterCleaned(page)
After == ChapterSpoilers(Before)

HasContentBlock == FindAllTagClass(page, "div", clsChapterContent) # <<>>

chDisplayWord == Chars("display")
chNoneWord == Chars("none")

\* the declarations include display:none, with or without blanks around the
\* colon and with or without a semicolon after it
DeclaresDisplayNone(body) ==
    \E j \in DOMAIN body :
        /\ StartsWith(From(body, j), chDisplayWord)
        /\ LET r == LStrip(From(body, j + Len(chDisplayWord)))
           IN  StartsWith(r, Chars(":")) /\ StartsWith(LStrip(Tail(r)), chNoneWord)

\* a rule starts at position i of css: at its beginning or after a "}"
RuleStartsAt(css, i) ==
    /\ css[i] = Ord["."]
    /\ LET lead == RStrip(SubSeq(css, 1, i - 1))
       IN  lead = <<>> \/ lead[Len(lead)] = Ord["}"]

\* the class names C of the single-class rules .C { ... display:none ... } of a
\* style text
RuleHiddenClasses(css) ==
    { SubSeq(From(css, i + 1), 1, WordRun(From(css, i + 1))) :
        i \in { k \in DOMAIN css :
                  /\ RuleStartsAt(css, k)
                  /\ LET b == From(css, k + 1)
                         n == WordRun(b)
                         c == LStrip(From(b, n + 1))
                     IN  /\ n > 0
                         /\ StartsWith(c, Chars("{"))
                         /\ FirstBrace(Tail(c)) > 0
                         /\ DeclaresDisplayNone(SubSeq(Tail(c), 1, FirstBrace(Tail(c)) - 1)) } }

\* the classes that some inline style block of the page hides
PageHiddenClasses ==
    UNION { IF StringOf(st) = None THEN {} ELSE RuleHiddenClasses(StringOf(st)[1]) :
              st \in Range(FindAllTag(page, "style")) }

\* C3: in the content _chapter returns there is no element of a class C for
\* which some inline style block of the page holds a rule .C { ... } whose
\* declarations include display:none, every such rule of every style block
\* being applied; and when no style rule matches, the hidden-warning removal
\* changes nothing and raises no error.
C3_AsClaimed ==
    (chapter_result.done /\ HasContentBlock) =>
        /\ PageHiddenClasses = {} =>
              /\ Before.err = ""
              /\ Before.root = SiteClean(page, Before.cid)
        /\ chapter_result.err = "" =>
              \A c \in PageHiddenClasses :
                  FindAllClass(NodeOf(After.root, After.cid)[1], c) = <<>>

\* C4: spoiler normalization is applied if and only if skip_spoilers is not
\* disabled: with skip_spoilers false _chapter returns the content with every
\* spoiler as the generic cleaner and the hidden-warning removal left it; with
\* skip_spoilers true the normalization runs.
C4_AsClaimed ==
    chapter_result.done =>
        chapter_result = [done |-> TRUE] @@
            (IF options.skip_spoilers
             THEN ChapterFinish(ChapterSpoilers(ChapterCleaned(page)))
             ELSE ChapterFinish(ChapterCleaned(page)))

\* the first child element of the chapter-content block's parent is an
\* author-note block
NoteIsFirstChild(root, cid) ==
    LET elems == SelectSeq(ParentOf(root, cid)[1].kids, IsTag)
    IN  elems[1].tag = "div" /\ HasClass(elems[1], clsAuthorNote)

\* C6: the returned content is the cleaned content alone when the page has no
\* author-note block; with one, note + <hr/> + content when the first child
\* element of the content block's parent is an author-note block and
\* content + <hr/> + note otherwise; with two, note1 + <hr/> + content +
\* <hr/> + note2, in document order.
C6_AsClaimed ==
    (chapter_result.done /\ After.err = "" /\ Updated(After.root).err = "") =>
        LET notes   == FindAllTagClass(After.root, "div", clsAuthorNote)
            content == Str(NodeOf(After.root, After.cid)[1])
        IN  Len(notes) <= 2 =>
              /\ chapter_result.err = ""
              /\ chapter_result.content =
                    IF Len(notes) = 0 THEN content
                    ELSE IF Len(notes) = 2
                    THEN Str(notes[1]) \o chHr \o content \o chHr \o Str(notes[2])
                    ELSE IF NoteIsFirstChild(After.root, After.cid)
                    THEN Str(notes[1]) \o chHr \o content
                    ELSE content \o chHr \o Str(notes[1])

\* the spoiler elements of the cleaned content block, before normalization
SpoilersBefore == FindAllClass(NodeOf(Before.root, Before.cid)[1], clsSpoiler)

\* the spoiler-inner blocks inside the spoiler-content blocks of a spoiler
InnersOf(sp) ==
    UNION { Range(FindAllTagClass(c, "div", clsSpoilerInner)) :
              c \in Range(FindAllTagClass(sp, "div", clsSpoilerContent)) }

\* the label the header of a spoiler shows: the trimmed text of its small-text
\* element, a single space when the element is absent or its text blank
LabelOf(sp) ==
    LET small == First(FindAllTagClass(sp, "div", clsSmalltext))
    IN  IF small = None \/ GetTextStrip(small[1]) = <<>> THEN Chars(" ")
        ELSE GetTextStrip(small[1])

\* the text of a spoiler header: [SPOILER - <label>], of any label when none is
\* asked for
IsSpoilerHeader(text, label) ==
    IF label = None THEN StartsWith(text, chSpoilerOpen) /\ text[Len(text)] = Ord["]"]
    ELSE text = chSpoilerOpen \o label[1] \o Chars("]")

\* in the normalized content a strong marker with a header text is immediately
\* followed by one of the spoiler's inner blocks, its inline style cleared
MarkerThenInner(sp, label) ==
    \E p \in Range(<<After.root>> \o Descendants(After.root)) :
        \E k \in 1..(Len(p.kids) - 1) :
            /\ p.kids[k].tag = "strong"
            /\ StringOf(p.kids[k]) # None
            /\ IsSpoilerHeader(StringOf(p.kids[k])[1], label)
            /\ p.kids[k + 1].id \in {i.id : i \in InnersOf(sp)}
            /\ p.kids[k + 1].style = Some(<<>>)

\* C7: a spoiler that contains a spoiler-content block that contains a
\* spoiler-inner block is replaced, where it stood, by a strong marker
\* [SPOILER - <label>] immediately followed by the inner block with its style
\* cleared, and the wrapper, its content div and its inputs are gone from the
\* content; a spoiler that lacks the content block or the inner block stays
\* in the content as it was, and no error is raised.
C7_AsClaimed ==
    (chapter_result.done /\ Before.err = "") =>
        /\ After.err = ""
        /\ \A sp \in Range(SpoilersBefore) :
              IF InnersOf(sp) # {}
              THEN /\ MarkerThenInner(sp, None)
                   /\ NodeOf(After.root, sp.id) = None
                   /\ \A d \in Range(Descendants(sp)) :
                         (/\ d.tag \in {"div", "input"}
                          /\ \A i \in InnersOf(sp) :
                                d.id \notin {i.id} \cup Range(Ids(Descendants(i))))
                         => NodeOf(After.root, d.id) = None
              ELSE (\A o \in Range(SpoilersBefore) :
                       InnersOf(o) # {} => sp.id \notin Range(Ids(Descendants(o))))
                   => NodeOf(After.root, sp.id) = Some(sp)

\* C8: the header of every normalized spoiler shows the trimmed text of the
\* spoiler's small-text label, and a single space ([SPOILER -  ]) when the
\* label element is absent or blank; the normalizer raises no error then.
C8_AsClaimed ==
    (chapter_result.done /\ Before.err = "") =>
        /\ After.err = ""
        /\ \A sp \in Range(SpoilersBefore) :
              InnersOf(sp) # {} => MarkerThenInner(sp, Some(LabelOf(sp)))

====
